---- MODULE Spec2Model ----
(***************************************************************************)
(* A model of advanced-vector/vector.h: RawMemory<T> (an owner of raw,     *)
(* uninitialized storage) and Vector<T> (the element-lifetime authority    *)
(* built on it).                                                           *)
(*                                                                         *)
(* The heap is a map from addresses to buffers; a buffer is a sequence of  *)
(* slots; a slot is <<>> (raw storage, no object) or <<x>> (a constructed  *)
(* element of value x).  Two Vector objects, "a" and "b", live in the      *)
(* program.  Every member function is one action; inside it the function   *)
(* is executed step by step on an execution record, and every step that    *)
(* can throw (operator new, an element constructor or assignment) is a     *)
(* point where the injected fault may fire.                                *)
(***************************************************************************)
EXTENDS Integers, Sequences, FiniteSets, TLC

\* ---------------------------------------------------------------- bounds
\* Largest capacity a single vector is driven to.
MaxCap == 4
\* Largest sum of the capacities of the two vectors after a call that leaves
\* both of them owning a buffer.
MaxPair == 4
\* Element values a caller passes in are 0..MaxVal.
MaxVal == 1
\* Longest run of PushBack calls on an empty vector that is followed.
MaxAppend == 8

\* ------------------------------------------------------- element type T
\* T() of the modelled element type (value-initialisation, lines 93, 204).
DefaultValue == 0
\* The value a moved-from element is left with: valid, but no caller's value.
MovedFrom == MaxVal + 1
Values == 0..MaxVal
Vecs == {"a", "b"}
\* One address for the buffer of each vector and one for the buffer a call
\* allocates before it releases the old one.
Addrs == 1..(Cardinality(Vecs) + 1)
\* nullptr
Null == 0

\* The element types the template is instantiated with: whether the move
\* constructor is noexcept and whether there is a copy constructor.
ElementTypes ==
    { [nothrow_move |-> TRUE,  copyable |-> TRUE],
      [nothrow_move |-> FALSE, copyable |-> TRUE],
      [nothrow_move |-> FALSE, copyable |-> FALSE] }

VARIABLES
    vec,    \* vec[v]: the Vector object v: alive, data_ (buffer_, capacity_), size_
    heap,   \* heap[p]: the buffer at address p; <<>> when p is not allocated
    live,   \* element constructor calls minus destructor calls, in buffers
    errs,   \* lifetime errors that have happened (destroy of raw storage, ...)
    T       \* the element type

vars == <<vec, heap, live, errs, T>>

\* ------------------------------------------------------- execution record
\* The state a member function works on while it runs.
\*   fuel    the injected fault: the fuel-th throwing-capable step throws
\*           (0: none is left to fire)
\*   fault   the kind of step that threw in this call ("" if none did)
\*   thrown  the exception in flight ("" when none is)
\*   allocs  the buffers operator new has handed out in this call
\*   copies  the copy constructor calls of this call
\*   moves   the move constructor calls of this call
Start(fuel) ==
    [vec |-> vec, heap |-> heap, live |-> live, errs |-> errs,
     fuel |-> fuel, fault |-> "", thrown |-> "",
     allocs |-> 0, copies |-> 0, moves |-> 0]

Err(e, what) == [e EXCEPT !.errs = @ \cup {what}]

\* A step that may throw an exception of the given kind.
Tick(e, kind) ==
    IF e.fuel = 1 THEN [e EXCEPT !.fuel = 0, !.fault = kind, !.thrown = kind]
    ELSE IF e.fuel > 1 THEN [e EXCEPT !.fuel = @ - 1]
    ELSE e

\* Whether offset i is a slot of the buffer at p.
InBuffer(e, p, i) == p \in Addrs /\ i >= 0 /\ i < Len(e.heap[p])

IsObject(e, p, i) == InBuffer(e, p, i) /\ e.heap[p][i + 1] # <<>>

\* ------------------------------------------------------------- RawMemory
FreeAddrs(e) == {p \in Addrs : e.heap[p] = <<>>}

RawBuffer(n) == [i \in 1..n |-> <<>>]

\* operator new(n * sizeof(T)) once it is known whether it throws (record t):
\* the execution record and the address.
OperatorNew(t, n) ==
    IF t.thrown # "" THEN [e |-> t, buffer_ |-> Null]
    ELSE IF FreeAddrs(t) = {}
         THEN [e |-> [t EXCEPT !.fault = "alloc", !.thrown = "alloc"],
               buffer_ |-> Null]
         ELSE LET p == CHOOSE q \in FreeAddrs(t) : \A r \in FreeAddrs(t) : q <= r
              IN [e |-> [t EXCEPT !.heap[p] = RawBuffer(n), !.allocs = @ + 1],
                  buffer_ |-> p]

\* RawMemory::Allocate: operator new(n * sizeof(T)), nullptr for n = 0.
\* Yields the execution record and the address.
Allocate(e, n) ==
    IF n = 0 THEN [e |-> e, buffer_ |-> Null]
    ELSE OperatorNew(Tick(e, "alloc"), n)

\* RawMemory::Deallocate: operator delete(buf); no element destructor runs.
Deallocate(e, p) ==
    IF p = Null THEN e
    ELSE IF p \notin Addrs \/ e.heap[p] = <<>> THEN Err(e, "double_free")
    ELSE IF \E i \in 1..Len(e.heap[p]) : e.heap[p][i] # <<>>
         THEN Err([e EXCEPT !.heap[p] = <<>>], "leak")
         ELSE [e EXCEPT !.heap[p] = <<>>]

\* ------------------------------------------------------ element lifetime
\* The value read from the slot at offset i of the buffer at p.  A read of
\* raw storage is undefined (ReadErr records it); no value is taken from it.
ReadAt(e, p, i) == IF IsObject(e, p, i) THEN e.heap[p][i + 1][1] ELSE MovedFrom

ReadErr(e, p, i) == IF IsObject(e, p, i) THEN e ELSE Err(e, "read_raw")

\* A constructor of the given kind has run to its end (record t), unless it
\* threw.
Counted(t, kind) ==
    IF t.thrown # "" THEN t
    ELSE IF kind = "copy" THEN [t EXCEPT !.copies = @ + 1]
    ELSE IF kind = "move" THEN [t EXCEPT !.moves = @ + 1]
    ELSE t

\* The object made at offset i of the buffer at p, once it is known whether
\* its constructor throws (record t).
PlacementNew(t, p, i, x) ==
    IF t.thrown # "" THEN t
    ELSE IF ~InBuffer(t, p, i) THEN Err(t, "out_of_bounds")
    ELSE IF IsObject(t, p, i)
         THEN Err([t EXCEPT !.heap[p][i + 1] = <<x>>, !.live = @ + 1],
                  "construct_over_object")
         ELSE [t EXCEPT !.heap[p][i + 1] = <<x>>, !.live = @ + 1]

\* Placement new at offset i of the buffer at p: new (p + i) T(x).
\* kind is the constructor called; it can throw unless nothrow is TRUE.
ConstructAt(e, p, i, x, kind, nothrow) ==
    PlacementNew(Counted(IF nothrow THEN e ELSE Tick(e, kind), kind), p, i, x)

\* The destructor call on the slot at offset i of the buffer at p.
DestroyAt(e, p, i) ==
    IF ~InBuffer(e, p, i) THEN Err([e EXCEPT !.live = @ - 1], "out_of_bounds")
    ELSE IF ~IsObject(e, p, i) THEN Err([e EXCEPT !.live = @ - 1], "destroy_raw")
    ELSE [e EXCEPT !.heap[p][i + 1] = <<>>, !.live = @ - 1]

\* std::destroy_n(p + off, n)
RECURSIVE destroy_n(_, _, _, _)
destroy_n(e, p, off, n) ==
    IF n <= 0 THEN e ELSE destroy_n(DestroyAt(e, p, off), p, off + 1, n - 1)

\* Leaves the source of a move in its moved-from state.
MoveOut(e, p, i) ==
    IF IsObject(e, p, i) THEN [e EXCEPT !.heap[p][i + 1] = <<MovedFrom>>] ELSE e

\* A transfer that takes the value out of each source element it copies.
RECURSIVE uninitialized_copy_n_moving(_, _, _, _, _, _, _)
uninitialized_copy_n_moved(c, src, soff, n, dst, doff, done) ==
    IF c.thrown # "" THEN destroy_n(c, dst, doff, done)
    ELSE uninitialized_copy_n_moving(MoveOut(c, src, soff + done),
                                     src, soff, n, dst, doff, done + 1)

uninitialized_copy_n_moving(e, src, soff, n, dst, doff, done) ==
    IF done >= n THEN e
    ELSE uninitialized_copy_n_moved(
             ConstructAt(ReadErr(e, src, soff + done), dst, doff + done,
                         ReadAt(e, src, soff + done), "copy", FALSE),
             src, soff, n, dst, doff, done)

\* std::uninitialized_copy_n(src + soff, n, dst + doff), from element `done` on:
\* copy-constructs one by one; when a copy throws, destroys the copies made
\* and rethrows.  c is the record after the copy of element `done`.
RECURSIVE uninitialized_copy_n(_, _, _, _, _, _, _)
uninitialized_copy_n_copied(c, src, soff, n, dst, doff, done) ==
    IF c.thrown # "" THEN destroy_n(c, dst, doff, done)
    ELSE uninitialized_copy_n(c, src, soff, n, dst, doff, done + 1)

uninitialized_copy_n(e, src, soff, n, dst, doff, done) ==
    IF done >= n THEN e
    ELSE uninitialized_copy_n_copied(
             ConstructAt(ReadErr(e, src, soff + done), dst, doff + done,
                         ReadAt(e, src, soff + done), "copy", FALSE),
             src, soff, n, dst, doff, done)

\* std::uninitialized_move_n(src + soff, n, dst + doff), from element `done` on:
\* move-constructs one by one; when a move throws, destroys the elements
\* made and rethrows (the sources already moved from stay moved from).
RECURSIVE uninitialized_move_n(_, _, _, _, _, _, _)
uninitialized_move_n_moved(c, src, soff, n, dst, doff, done) ==
    IF c.thrown # "" THEN destroy_n(c, dst, doff, done)
    ELSE uninitialized_move_n(MoveOut(c, src, soff + done),
                              src, soff, n, dst, doff, done + 1)

uninitialized_move_n(e, src, soff, n, dst, doff, done) ==
    IF done >= n THEN e
    ELSE uninitialized_move_n_moved(
             ConstructAt(ReadErr(e, src, soff + done), dst, doff + done,
                         ReadAt(e, src, soff + done), "move", T.nothrow_move),
             src, soff, n, dst, doff, done)

\* std::uninitialized_value_construct_n(dst + doff, n), from element `done` on.
RECURSIVE uninitialized_value_construct_n(_, _, _, _, _)
uninitialized_value_construct_n_made(c, dst, doff, n, done) ==
    IF c.thrown # "" THEN destroy_n(c, dst, doff, done)
    ELSE uninitialized_value_construct_n(c, dst, doff, n, done + 1)

uninitialized_value_construct_n(e, dst, doff, n, done) ==
    IF done >= n THEN e
    ELSE uninitialized_value_construct_n_made(
             ConstructAt(e, dst, doff + done, DefaultValue, "value", FALSE),
             dst, doff, n, done)

\* The element at offset i of the buffer at p after an assignment to it,
\* once it is known whether the assignment throws (record t).
Assigned(t, p, i, x) ==
    IF t.thrown # "" THEN t
    ELSE IF ~IsObject(t, p, i) THEN Err(t, "assign_raw")
    ELSE [t EXCEPT !.heap[p][i + 1] = <<x>>]

\* An assignment to the element at offset i of the buffer at p.
AssignAt(e, p, i, x, kind) == Assigned(Tick(e, kind), p, i, x)

\* std::copy(src + first, src + last, dst + d): copy-assigns, first to last.
RECURSIVE std_copy(_, _, _, _, _, _)
std_copy_assigned(c, src, first, lst, dst, d) ==
    IF c.thrown # "" THEN c ELSE std_copy(c, src, first + 1, lst, dst, d + 1)

std_copy(e, src, first, lst, dst, d) ==
    IF first >= lst THEN e
    ELSE std_copy_assigned(
             AssignAt(ReadErr(e, src, first), dst, d, ReadAt(e, src, first),
                      "copy_assign"),
             src, first, lst, dst, d)

\* std::move(p + first, p + last, p + d): move-assigns, first to last.
RECURSIVE std_move(_, _, _, _, _)
std_move_assigned(c, p, first, lst, d) ==
    IF c.thrown # "" THEN c
    ELSE std_move(MoveOut(c, p, first), p, first + 1, lst, d + 1)

std_move(e, p, first, lst, d) ==
    IF first >= lst THEN e
    ELSE std_move_assigned(
             AssignAt(ReadErr(e, p, first), p, d, ReadAt(e, p, first),
                      "move_assign"),
             p, first, lst, d)

\* A shift to the right that walks the overlapping ranges first to last.
RECURSIVE std_move_forward(_, _, _, _, _)
std_move_forward_assigned(c, p, first, lst, dlast) ==
    IF c.thrown # "" THEN c
    ELSE std_move_forward(MoveOut(c, p, first), p, first + 1, lst, dlast)

std_move_forward(e, p, first, lst, dlast) ==
    IF first >= lst THEN e
    ELSE std_move_forward_assigned(
             AssignAt(ReadErr(e, p, first), p, dlast - (lst - first),
                      ReadAt(e, p, first), "move_assign"),
             p, first, lst, dlast)

\* std::move_backward(p + first, p + last, p + dlast): move-assigns,
\* last to first, the range ending at dlast.
RECURSIVE std_move_backward(_, _, _, _, _)
std_move_backward_assigned(c, p, first, lst, dlast) ==
    IF c.thrown # "" THEN c
    ELSE std_move_backward(MoveOut(c, p, lst - 1), p, first, lst - 1, dlast - 1)

std_move_backward(e, p, first, lst, dlast) ==
    IF first >= lst THEN e
    ELSE std_move_backward_assigned(
             AssignAt(ReadErr(e, p, lst - 1), p, dlast - 1, ReadAt(e, p, lst - 1),
                      "move_assign"),
             p, first, lst, dlast)

\* ------------------------------------------------------------------ Vector
\* A Vector object that is not constructed, and Vector() (line 88).
NoVector == [alive |-> FALSE, buffer_ |-> Null, capacity_ |-> 0, size_ |-> 0]
EmptyVector == [alive |-> TRUE, buffer_ |-> Null, capacity_ |-> 0, size_ |-> 0]

\* A size_ update that is made on the throwing exit as well.
SetSizeAlways(e, v, n) == [e EXCEPT !.vec[v].size_ = n]

\* size_ = n, unless an exception is in flight.
SetSize(e, v, n) == IF e.thrown # "" THEN e ELSE [e EXCEPT !.vec[v].size_ = n]

\* data_.Swap(new_data) followed by the destructor of new_data: the vector
\* takes the buffer at p, of capacity c, and its former buffer is released.
SwapAndRelease(e, v, p, c) ==
    Deallocate([e EXCEPT !.vec[v].buffer_ = p, !.vec[v].capacity_ = c],
               e.vec[v].buffer_)

\* std::destroy_n(data_.GetAddress(), size_); data_.Swap(new_data); with the
\* new buffer at p, of capacity c.
DestroyAndSwap(e, v, p, c) ==
    SwapAndRelease(destroy_n(e, e.vec[v].buffer_, 0, e.vec[v].size_), v, p, c)

\* A transfer rule that looks at the move constructor alone.
UseMoveIfNoexceptOnly == T.nothrow_move

\* The transfer rule: is_nothrow_move_constructible_v<T> ||
\* !is_copy_constructible_v<T>.
UseMove == T.nothrow_move \/ ~T.copyable

\* The transfer of n elements from one buffer to another.
Transfer(e, src, soff, n, dst, doff) ==
    IF UseMove THEN uninitialized_move_n(e, src, soff, n, dst, doff, 0)
    ELSE uninitialized_copy_n(e, src, soff, n, dst, doff, 0)

\* A growth by one slot.
GrowthCapacityPlusOne(size, capacity) == capacity + 1

\* The capacity of the buffer a full vector grows into.
GrowthCapacity(size, capacity) == IF size = 0 THEN 1 ELSE capacity * 2

\* Vector::Reserve after the transfer (record t) into the buffer at p.
ReserveTransferred(t, v, p, new_capacity) ==
    IF t.thrown # "" THEN Deallocate(t, p)
    ELSE DestroyAndSwap(t, v, p, new_capacity)

\* A Reserve that gives up its elements when the allocation fails.
ReserveAllocatedClearing(new_data, v, new_capacity) ==
    IF new_data.e.thrown # ""
    THEN [destroy_n(new_data.e, new_data.e.vec[v].buffer_, 0,
                    new_data.e.vec[v].size_)
             EXCEPT !.vec[v].size_ = 0]
    ELSE ReserveTransferred(
             Transfer(new_data.e, new_data.e.vec[v].buffer_, 0,
                      new_data.e.vec[v].size_, new_data.buffer_, 0),
             v, new_data.buffer_, new_capacity)

\* Vector::Reserve after the allocation of new_data.
ReserveAllocated(new_data, v, new_capacity) ==
    IF new_data.e.thrown # "" THEN new_data.e
    ELSE ReserveTransferred(
             Transfer(new_data.e, new_data.e.vec[v].buffer_, 0,
                      new_data.e.vec[v].size_, new_data.buffer_, 0),
             v, new_data.buffer_, new_capacity)

\* A Reserve without the early return.
ReserveAlways(e, v, new_capacity) ==
    ReserveAllocated(Allocate(e, new_capacity), v, new_capacity)

\* Vector::Reserve
Reserve(e, v, new_capacity) ==
    IF new_capacity <= e.vec[v].capacity_ THEN e
    ELSE ReserveAllocated(Allocate(e, new_capacity), v, new_capacity)

\* A Resize that sets size_ and constructs nothing.
ResizeReservedSizeOnly(r, v, new_size) == SetSize(r, v, new_size)

\* Vector::Resize after Reserve (record r).
ResizeReserved(r, v, new_size) ==
    IF r.thrown # "" THEN r
    ELSE SetSize(uninitialized_value_construct_n(
                     r, r.vec[v].buffer_, r.vec[v].size_,
                     new_size - r.vec[v].size_, 0),
                 v, new_size)

\* Vector::Resize
Resize(e, v, new_size) ==
    IF new_size < e.vec[v].size_
    THEN [destroy_n(e, e.vec[v].buffer_, new_size, e.vec[v].size_ - new_size)
             EXCEPT !.vec[v].size_ = new_size]
    ELSE ResizeReserved(Reserve(e, v, new_size), v, new_size)

\* Vector::PopBack
PopBack(e, v) ==
    [destroy_n(e, e.vec[v].buffer_, e.vec[v].size_ - 1, 1)
        EXCEPT !.vec[v].size_ = @ - 1]

\* A branch test that misses the full vector.
EmplaceBackReallocatesLate(size, capacity) == size > capacity

\* The branch of EmplaceBack taken at size_ and Capacity().
EmplaceBackReallocates(size, capacity) == size = capacity

\* The catch block of EmplaceBack around the copying transfer.
EmplaceBackRollback(e, new_buffer, size) == destroy_n(e, new_buffer, 0, size)

\* Vector::EmplaceBack after the transfer (record t) into the buffer at p.
EmplaceBackTransferred(t, v, p, cap) ==
    IF t.thrown # ""
    THEN IF UseMove THEN Deallocate(t, p)
         ELSE Deallocate(EmplaceBackRollback(t, p, t.vec[v].size_), p)
    ELSE [DestroyAndSwap(t, v, p, cap) EXCEPT !.vec[v].size_ = @ + 1]

\* Vector::EmplaceBack after the construction (record c) of the new element
\* in the buffer at p.
EmplaceBackConstructed(c, v, p, cap) ==
    IF c.thrown # "" THEN Deallocate(c, p)
    ELSE EmplaceBackTransferred(
             Transfer(c, c.vec[v].buffer_, 0, c.vec[v].size_, p, 0), v, p, cap)

\* Vector::EmplaceBack after the allocation of new_data.
EmplaceBackAllocated(new_data, v, x, cap) ==
    IF new_data.e.thrown # "" THEN new_data.e
    ELSE EmplaceBackConstructed(
             ConstructAt(new_data.e, new_data.buffer_, new_data.e.vec[v].size_,
                         x, "ctor", FALSE),
             v, new_data.buffer_, cap)

\* Vector::EmplaceBack (PushBack forwards to it)
EmplaceBack(e, v, x) ==
    IF EmplaceBackReallocates(e.vec[v].size_, e.vec[v].capacity_)
    THEN EmplaceBackAllocated(
             Allocate(e, GrowthCapacity(e.vec[v].size_, e.vec[v].capacity_)),
             v, x, GrowthCapacity(e.vec[v].size_, e.vec[v].capacity_))
    ELSE IF e.vec[v].size_ < e.vec[v].capacity_
         THEN SetSize(ConstructAt(e, e.vec[v].buffer_, e.vec[v].size_, x,
                                  "ctor", FALSE),
                      v, e.vec[v].size_ + 1)
    ELSE [e EXCEPT !.vec[v].size_ = @ + 1]

\* The catch block of Emplace around the assignment of the new element.
EmplaceAssignCatch(e, p, count) ==
    [destroy_n(e, p, count, 1) EXCEPT !.thrown = ""]

\* The catch block of Emplace around the construction of the new element
\* in the new buffer.
EmplaceConstructCatch(e, new_buffer, count) == destroy_n(e, new_buffer, count, 1)

\* The catch block of Emplace around the copying transfer.
EmplaceRollback(e, new_buffer, size) == destroy_n(e, new_buffer, 0, size)

\* Vector::Emplace in place, after data_[count] = std::move(temp) (record a).
EmplaceAssigned(a, p, count) ==
    IF a.thrown # "" THEN EmplaceAssignCatch(a, p, count) ELSE a

\* An interior insertion whose failed shift leaves the new last element
\* in place.
EmplaceShiftedKeepingTail(m, p, size, count, x) ==
    IF m.thrown # "" THEN m
    ELSE EmplaceAssigned(AssignAt(m, p, count, x, "move_assign"), p, count)

\* Vector::Emplace in place, after std::move_backward (record m).
EmplaceShifted(m, p, size, count, x) ==
    IF m.thrown # "" THEN destroy_n(m, p, size, 1)
    ELSE EmplaceAssigned(AssignAt(m, p, count, x, "move_assign"), p, count)

\* Vector::Emplace in place, after the construction of the new last element
\* from the old one (record tail).
EmplaceTailMade(tail, p, size, count, x) ==
    IF tail.thrown # "" THEN tail
    ELSE EmplaceShifted(
             std_move_backward(MoveOut(tail, p, size - 1), p, count, size - 1,
                               size),
             p, size, count, x)

\* Vector::Emplace in place, after T temp(args...) (record temp).
EmplaceTempMade(temp, p, size, count, x) ==
    IF temp.thrown # "" THEN temp
    ELSE EmplaceTailMade(
             ConstructAt(ReadErr(temp, p, size - 1), p, size,
                         ReadAt(temp, p, size - 1), "move", T.nothrow_move),
             p, size, count, x)

\* Vector::Emplace, the interior insertion into spare capacity.
EmplaceShift(e, v, count, x) ==
    EmplaceTempMade(Tick(e, "ctor"), e.vec[v].buffer_, e.vec[v].size_, count, x)

\* Vector::Emplace into a new buffer at p, after the transfers (record t).
EmplaceTransferred(t, v, p, cap) ==
    IF t.thrown # ""
    THEN IF UseMove THEN Deallocate(t, p)
         ELSE Deallocate(EmplaceRollback(t, p, t.vec[v].size_), p)
    ELSE DestroyAndSwap(t, v, p, cap)

\* Vector::Emplace into a new buffer at p, after the transfer of the
\* elements before offset count (record t).
EmplaceHeadTransferred(t, v, p, count, cap) ==
    IF t.thrown # "" THEN EmplaceTransferred(t, v, p, cap)
    ELSE EmplaceTransferred(
             Transfer(t, t.vec[v].buffer_, count, t.vec[v].size_ - count, p,
                      count + 1),
             v, p, cap)

\* Vector::Emplace into a new buffer at p, after the construction of the new
\* element (record c).
EmplaceConstructed(c, v, p, count, cap) ==
    IF c.thrown # "" THEN Deallocate(EmplaceConstructCatch(c, p, count), p)
    ELSE EmplaceHeadTransferred(Transfer(c, c.vec[v].buffer_, 0, count, p, 0),
                                v, p, count, cap)

\* Vector::Emplace after the allocation of new_data.
EmplaceAllocated(new_data, v, count, x, cap) ==
    IF new_data.e.thrown # "" THEN new_data.e
    ELSE EmplaceConstructed(
             ConstructAt(new_data.e, new_data.buffer_, count, x, "ctor", FALSE),
             v, new_data.buffer_, count, cap)

\* Vector::Emplace, the insertion into a new buffer.
EmplaceReallocate(e, v, count, x) ==
    EmplaceAllocated(
        Allocate(e, GrowthCapacity(e.vec[v].size_, e.vec[v].capacity_)),
        v, count, x, GrowthCapacity(e.vec[v].size_, e.vec[v].capacity_))

\* An Emplace without the branch for pos == end(): with spare capacity it
\* always goes through temp and the shift.
EmplaceWithoutAppend(e, v, count, x) ==
    SetSize(IF e.vec[v].size_ < e.vec[v].capacity_
            THEN EmplaceShift(e, v, count, x)
            ELSE EmplaceReallocate(e, v, count, x),
            v, e.vec[v].size_ + 1)

\* Vector::Emplace at offset count = pos - begin() (Insert forwards to it)
Emplace(e, v, count, x) ==
    SetSize(IF e.vec[v].size_ < e.vec[v].capacity_
            THEN IF count = e.vec[v].size_
                 THEN ConstructAt(e, e.vec[v].buffer_, e.vec[v].size_, x,
                                  "ctor", FALSE)
                 ELSE EmplaceShift(e, v, count, x)
            ELSE EmplaceReallocate(e, v, count, x),
            v, e.vec[v].size_ + 1)

\* Vector::Erase after std::move (record m).
EraseShifted(m, v) == IF m.thrown # "" THEN m ELSE PopBack(m, v)

\* Vector::Erase at offset count = pos - begin()
Erase(e, v, count) ==
    EraseShifted(std_move(e, e.vec[v].buffer_, count + 1, e.vec[v].size_, count),
                 v)

\* A constructor after the construction of the elements (record c) in the
\* buffer at p: the execution record and the object made (NoVector when the
\* constructor threw; data_ is then released).
Constructed(c, p, size) ==
    IF c.thrown # "" THEN [e |-> Deallocate(c, p), obj |-> NoVector]
    ELSE [e |-> c,
          obj |-> [alive |-> TRUE, buffer_ |-> p, capacity_ |-> size,
                   size_ |-> size]]

\* Vector::Vector(size_t size) after the allocation of data_.
VectorSizedAllocated(data, size) ==
    IF data.e.thrown # "" THEN [e |-> data.e, obj |-> NoVector]
    ELSE Constructed(
             uninitialized_value_construct_n(data.e, data.buffer_, 0, size, 0),
             data.buffer_, size)

\* Vector::Vector(size_t size) as a temporary or a new object.
VectorSized(e, size) == VectorSizedAllocated(Allocate(e, size), size)

\* Vector::Vector(const Vector& other) after the allocation of data_.
VectorCopyAllocated(data, o) ==
    IF data.e.thrown # "" THEN [e |-> data.e, obj |-> NoVector]
    ELSE Constructed(
             uninitialized_copy_n(data.e, data.e.vec[o].buffer_, 0,
                                  data.e.vec[o].size_, data.buffer_, 0, 0),
             data.buffer_, data.e.vec[o].size_)

\* Vector::Vector(const Vector& other)
VectorCopy(e, o) == VectorCopyAllocated(Allocate(e, e.vec[o].size_), o)

\* Vector::~Vector, then ~RawMemory of data_
VectorDestroy(e, obj) ==
    Deallocate(destroy_n(e, obj.buffer_, 0, obj.size_), obj.buffer_)

\* A Swap that takes the other object's members and gives nothing back.
SwapOneWay(e, v, o) == [e EXCEPT !.vec[v] = e.vec[o]]

\* Vector::Swap
Swap(e, v, o) == [e EXCEPT !.vec[v] = e.vec[o], !.vec[o] = e.vec[v]]

\* A CopyAssign that takes the elements to construct from the front of the
\* source.
CopyAssignFromFront(c, v, o) ==
    IF c.thrown # "" THEN c
    ELSE IF c.vec[v].size_ >= c.vec[o].size_
         THEN destroy_n(c, c.vec[v].buffer_, c.vec[o].size_,
                        c.vec[v].size_ - c.vec[o].size_)
    ELSE uninitialized_copy_n(c, c.vec[o].buffer_, 0,
                              c.vec[o].size_ - c.vec[v].size_,
                              c.vec[v].buffer_, c.vec[v].size_, 0)

\* Vector::CopyAssign after std::copy (record c): min_size == other.size_
\* exactly when size_ >= other.size_.
CopyAssignRest(c, v, o) ==
    IF c.thrown # "" THEN c
    ELSE IF c.vec[v].size_ >= c.vec[o].size_
         THEN destroy_n(c, c.vec[v].buffer_, c.vec[o].size_,
                        c.vec[v].size_ - c.vec[o].size_)
    ELSE uninitialized_copy_n(c, c.vec[o].buffer_, c.vec[v].size_,
                              c.vec[o].size_ - c.vec[v].size_,
                              c.vec[v].buffer_, c.vec[v].size_, 0)

\* Vector::CopyAssign
CopyAssign(e, v, o) ==
    CopyAssignRest(
        std_copy(e, e.vec[o].buffer_, 0,
                 IF e.vec[v].size_ < e.vec[o].size_
                 THEN e.vec[v].size_ ELSE e.vec[o].size_,
                 e.vec[v].buffer_, 0),
        v, o)

\* A copy assignment that always assigns into the buffer it has.
AssignNeedsCopyNever(other_size, capacity) == FALSE

\* The branch of operator=(const Vector&) taken for a source of other_size
\* elements and a target of the given capacity.
AssignNeedsCopy(other_size, capacity) == other_size > capacity

\* Vector copy_other(other); Swap(copy_other); and the destructor of
\* copy_other, which by then holds what v held.
CopyAndSwap(copy_other, v) ==
    IF copy_other.e.thrown # "" THEN copy_other.e
    ELSE VectorDestroy([copy_other.e EXCEPT !.vec[v] = copy_other.obj],
                       copy_other.e.vec[v])

\* Vector::operator=(const Vector& other)
CopyAssignment(e, v, o) ==
    SetSize(IF v = o THEN e
            ELSE IF AssignNeedsCopy(e.vec[o].size_, e.vec[v].capacity_)
                 THEN CopyAndSwap(VectorCopy(e, o), v)
            ELSE CopyAssign(e, v, o),
            v, e.vec[o].size_)

\* Vector::operator=(Vector&& other)
MoveAssignment(e, v, o) == IF v # o THEN Swap(e, v, o) ELSE e

\* ------------------------------------------------------------------ calls
\* The errors after which the behaviour of the program is undefined.
Undefined ==
    {"destroy_raw", "read_raw", "assign_raw", "out_of_bounds", "double_free",
     "construct_over_object"}

\* How a call that ends in execution record r can end for its caller.  After
\* undefined behaviour the call may also never come back.
Outcomes(r) ==
    {IF r.thrown # "" THEN "threw" ELSE "returned"}
        \cup (IF r.errs \cap Undefined # {} THEN {"crashed"} ELSE {})

\* The slots [0, size_) of vector v in vectors vs and heap hp.
Elements(vs, hp, v) ==
    LET d == vs[v]
    IN [i \in 1..d.size_ |->
           IF d.buffer_ \in Addrs /\ i <= Len(hp[d.buffer_])
           THEN hp[d.buffer_][i] ELSE <<>>]

\* The slots [size_, capacity_) of vector v.
Spare(vs, hp, v) ==
    LET d == vs[v]
    IN IF d.buffer_ \in Addrs
       THEN {hp[d.buffer_][i] : i \in (d.size_ + 1)..Len(hp[d.buffer_])}
       ELSE {}

\* More than the throwing-capable steps of any call within the bounds.
Probe == 2 * MaxCap + 4

\* A call: the member function op, called on object v with the other object
\* o, the argument count (an offset, a size or a capacity) and the argument
\* x (a value); its fuel-th throwing-capable step throws.
Call(op, v, o, count, x, fuel) ==
    [op |-> op, v |-> v, o |-> o, count |-> count, x |-> x, fuel |-> fuel]

\* The object a constructor made (record made) becomes object v.
Place(made, v) == [made.e EXCEPT !.vec[v] = made.obj]

\* The body of call c: the execution record it ends in.
Body(c) ==
    LET e == Start(c.fuel)
    IN CASE c.op = "Vector" -> [e EXCEPT !.vec[c.v] = EmptyVector]
         [] c.op = "VectorSized" -> Place(VectorSized(e, c.count), c.v)
         [] c.op = "VectorCopy" -> Place(VectorCopy(e, c.o), c.v)
         [] c.op = "VectorMove" ->
                Swap([e EXCEPT !.vec[c.v] = EmptyVector], c.v, c.o)
         [] c.op = "~Vector" ->
                [VectorDestroy(e, vec[c.v]) EXCEPT !.vec[c.v] = NoVector]
         [] c.op = "CopyAssignment" -> CopyAssignment(e, c.v, c.o)
         [] c.op = "MoveAssignment" -> MoveAssignment(e, c.v, c.o)
         [] c.op = "Swap" -> Swap(e, c.v, c.o)
         [] c.op = "Reserve" -> Reserve(e, c.v, c.count)
         [] c.op = "Resize" -> Resize(e, c.v, c.count)
         [] c.op = "EmplaceBack" -> EmplaceBack(e, c.v, c.x)
         [] c.op = "PopBack" -> PopBack(e, c.v)
         [] c.op = "Emplace" -> Emplace(e, c.v, c.count, c.x)
         [] c.op = "Erase" -> Erase(e, c.v, c.count)

\* The model follows the program up to its first lifetime error.  A vector
\* left with raw storage inside [0, size_) is one: whatever touches that slot
\* next (a read, an assignment, the destructor) is undefined.
Audit(r) ==
    IF \E v \in Vecs : \E i \in 1..r.vec[v].size_ :
           Elements(r.vec, r.heap, v)[i] = <<>>
    THEN Err(r, "raw_in_range") ELSE r

\* The execution record call c ends in.
Run(c) == Audit(Body(c))

\* The calls with the arguments given: the one in which nothing throws, and
\* one for each throwing-capable step of it, in which that step throws.
Faults(op, v, o, count, x) ==
    {Call(op, v, o, count, x, fuel) :
        fuel \in 0..(Probe - Run(Call(op, v, o, count, x, Probe)).fuel)}

\* A call may be made: the object exists and no lifetime error has happened.
Ready(v) == errs = {} /\ vec[v].alive
Unborn(v) == errs = {} /\ ~vec[v].alive
Others(v) == {w \in Vecs \ {v} : vec[w].alive}
Operands == {w \in Vecs : vec[w].alive}

\* The calls of each member function that can be made on v, by the function's
\* preconditions.
VectorCalls(v) ==
    IF Unborn(v) THEN Faults("Vector", v, v, 0, 0) ELSE {}

VectorSizedCalls(v) ==
    IF Unborn(v)
    THEN UNION {Faults("VectorSized", v, v, size, 0) :
                size \in 0..MaxCap}
    ELSE {}

VectorCopyCalls(v) ==
    IF Unborn(v) /\ T.copyable
    THEN UNION {Faults("VectorCopy", v, o, 0, 0) :
                o \in Others(v)}
    ELSE {}

VectorMoveCalls(v) ==
    IF Unborn(v)
    THEN UNION {Faults("VectorMove", v, o, 0, 0) : o \in Others(v)}
    ELSE {}

DestroyCalls(v) ==
    IF Ready(v) THEN Faults("~Vector", v, v, 0, 0) ELSE {}

CopyAssignmentCalls(v) ==
    IF Ready(v) /\ T.copyable
    THEN UNION {Faults("CopyAssignment", v, o, 0, 0) :
                o \in Operands}
    ELSE {}

MoveAssignmentCalls(v) ==
    IF Ready(v)
    THEN UNION {Faults("MoveAssignment", v, o, 0, 0) :
                o \in Operands}
    ELSE {}

SwapCalls(v) ==
    IF Ready(v)
    THEN UNION {Faults("Swap", v, o, 0, 0) : o \in Operands}
    ELSE {}

ReserveCalls(v) ==
    IF Ready(v)
    THEN UNION {Faults("Reserve", v, v, new_capacity, 0) :
                new_capacity \in 0..MaxCap}
    ELSE {}

ResizeCalls(v) ==
    IF Ready(v)
    THEN UNION {Faults("Resize", v, v, new_size, 0) :
                new_size \in 0..MaxCap}
    ELSE {}

EmplaceBackCalls(v) ==
    IF Ready(v)
    THEN UNION {Faults("EmplaceBack", v, v, vec[v].size_, x) :
                x \in Values}
    ELSE {}

\* PopBack requires size_ != 0.
PopBackCalls(v) ==
    IF Ready(v) /\ vec[v].size_ # 0
    THEN Faults("PopBack", v, v, 0, 0)
    ELSE {}

\* Emplace requires begin() <= pos <= end().
EmplaceCalls(v) ==
    IF Ready(v)
    THEN UNION {Faults("Emplace", v, v, count, x) :
                count \in 0..vec[v].size_, x \in Values}
    ELSE {}

\* Erase requires begin() <= pos < end().
EraseCalls(v) ==
    IF Ready(v)
    THEN UNION {Faults("Erase", v, v, count, 0) :
                count \in 0..(vec[v].size_ - 1)}
    ELSE {}

\* The result of a call is within the bounds.
InBounds(r) ==
    /\ \A w \in Vecs : r.vec[w].capacity_ <= MaxCap
    /\ \/ r.vec["a"].capacity_ = 0
       \/ r.vec["b"].capacity_ = 0
       \/ r.vec["a"].capacity_ + r.vec["b"].capacity_ <= MaxPair

\* Call c ending in execution record r is a call of the model: its fault
\* fired and its result is within the bounds.
Valid(c, r) == r.fuel = 0 /\ InBounds(r)

\* Addresses are opaque to the program: it never compares or orders two
\* buffer addresses.  The state after a call is therefore kept up to a
\* renaming of the addresses: the buffers the vectors hold come first, in
\* the order of the vectors, then the other addresses in increasing order.
AddressOrder(vs) ==
    LET first == IF vs["a"].buffer_ \in Addrs THEN <<vs["a"].buffer_>> ELSE <<>>
        held == IF vs["b"].buffer_ \in Addrs /\ vs["b"].buffer_ # vs["a"].buffer_
                THEN first \o <<vs["b"].buffer_>> ELSE first
        rest == Addrs \ {held[i] : i \in 1..Len(held)}
    IN [i \in Addrs |->
           IF i <= Len(held) THEN held[i]
           ELSE CHOOSE q \in rest :
                    Cardinality({r \in rest : r < q}) = i - Len(held) - 1]

Renamed(vs, hp) ==
    LET order == AddressOrder(vs)
        name(p) == IF p \in Addrs THEN CHOOSE i \in Addrs : order[i] = p ELSE p
    IN [vec |-> [v \in Vecs |-> [vs[v] EXCEPT !.buffer_ = name(@)]],
        heap |-> [i \in Addrs |-> hp[order[i]]]]

\* The state after a call that ended in execution record r, with the
\* vectors and the heap renamed to n.
Install(r, n) ==
    /\ vec' = n.vec
    /\ heap' = n.heap
    /\ live' = r.live
    /\ errs' = r.errs
    /\ T' = T

\* Call c ended in execution record r.
Commit(c, r) == Valid(c, r) /\ Install(r, Renamed(r.vec, r.heap))

\* The program makes call c.
Take(c) == Commit(c, Run(c))

\* Vector v;
CallVector(v) == \E c \in VectorCalls(v) : Take(c)
\* Vector v(size);
CallVectorSized(v) == \E c \in VectorSizedCalls(v) : Take(c)
\* Vector v(o);
CallVectorCopy(v) == \E c \in VectorCopyCalls(v) : Take(c)
\* Vector v(std::move(o));
CallVectorMove(v) == \E c \in VectorMoveCalls(v) : Take(c)
\* v goes out of scope.
CallDestroy(v) == \E c \in DestroyCalls(v) : Take(c)
\* v = o;
CallCopyAssignment(v) == \E c \in CopyAssignmentCalls(v) : Take(c)
\* v = std::move(o);
CallMoveAssignment(v) == \E c \in MoveAssignmentCalls(v) : Take(c)
\* v.Swap(o);
CallSwap(v) == \E c \in SwapCalls(v) : Take(c)
\* v.Reserve(new_capacity);
CallReserve(v) == \E c \in ReserveCalls(v) : Take(c)
\* v.Resize(new_size);
CallResize(v) == \E c \in ResizeCalls(v) : Take(c)
\* v.PushBack(x); v.EmplaceBack(x);
CallEmplaceBack(v) == \E c \in EmplaceBackCalls(v) : Take(c)
\* v.PopBack();
CallPopBack(v) == \E c \in PopBackCalls(v) : Take(c)
\* v.Insert(v.begin() + count, x); v.Emplace(v.begin() + count, x);
CallEmplace(v) == \E c \in EmplaceCalls(v) : Take(c)
\* v.Erase(v.begin() + count);
CallErase(v) == \E c \in EraseCalls(v) : Take(c)

\* The member functions of one object are called on a; b takes its contents
\* through the constructors, the assignments and Swap, and hands them back
\* the same way.
Subjects == {"a"}

Init ==
    /\ vec = [v \in Vecs |-> IF v = "a" THEN EmptyVector ELSE NoVector]
    /\ heap = [p \in Addrs |-> <<>>]
    /\ live = 0
    /\ errs = {}
    /\ T \in ElementTypes

Next ==
    \E v \in Vecs :
        \/ CallVector(v)
        \/ CallVectorSized(v)
        \/ CallVectorCopy(v)
        \/ CallVectorMove(v)
        \/ CallDestroy(v)
        \/ CallCopyAssignment(v)
        \/ CallMoveAssignment(v)
        \/ CallSwap(v)
        \/ v \in Subjects /\ CallReserve(v)
        \/ v \in Subjects /\ CallResize(v)
        \/ v \in Subjects /\ CallEmplaceBack(v)
        \/ v \in Subjects /\ CallPopBack(v)
        \/ v \in Subjects /\ CallEmplace(v)
        \/ v \in Subjects /\ CallErase(v)

Spec == Init /\ [][Next]_vars

\* ----------------------------------------------------------------- claims
\* The objects that exist.
Alive == {v \in Vecs : vec[v].alive}

\* Vector v and its buffer are after execution record r what they were
\* before the call: same address, same capacity, same size, same slots.
Untouched(r, v) ==
    /\ r.vec[v] = vec[v]
    /\ vec[v].buffer_ \in Addrs => r.heap[vec[v].buffer_] = heap[vec[v].buffer_]

\* The calls on v that have to grow the capacity.
GrowthCalls(v) ==
    {c \in ReserveCalls(v) : c.count > vec[v].capacity_}
        \cup {c \in EmplaceBackCalls(v) \cup EmplaceCalls(v) :
                 vec[v].size_ = vec[v].capacity_}

\* The calls that add one element to v.
AddCalls(v) == EmplaceBackCalls(v) \cup EmplaceCalls(v)

\* The calls of the member functions of one object.
MemberCalls(v) ==
    ReserveCalls(v) \cup ResizeCalls(v) \cup EmplaceBackCalls(v)
        \cup PopBackCalls(v) \cup EmplaceCalls(v) \cup EraseCalls(v)

\* The calls that involve a second object.
PairCalls(v) ==
    VectorCopyCalls(v) \cup VectorMoveCalls(v) \cup CopyAssignmentCalls(v)
        \cup MoveAssignmentCalls(v) \cup SwapCalls(v)

\* Sequence s with slot x put in front of offset count.
InsertAt(s, count, x) ==
    [i \in 1..(Len(s) + 1) |->
        IF i <= count THEN s[i] ELSE IF i = count + 1 THEN x ELSE s[i - 1]]

\* C1: at every observable point, and so after every call whether it returned
\* or left by an exception, 0 <= Size() <= Capacity() for every vector.
SizeWithinCapacity ==
    \A v \in Alive : 0 <= vec[v].size_ /\ vec[v].size_ <= vec[v].capacity_

\* A call on a full vector a that grows it is about to fail while it copies
\* the second element, and b is full as well.
SizeWithinCapacityWitness ==
    /\ vec["a"].size_ = vec["a"].capacity_ /\ vec["a"].size_ >= 2
    /\ vec["b"].alive /\ vec["b"].size_ = vec["b"].capacity_
    /\ \E c \in GrowthCalls("a") :
           LET r == Run(c)
           IN /\ r.thrown = "copy"
              /\ r.vec["a"].size_ = r.vec["a"].capacity_

\* C2: when a call that has to grow the capacity (Reserve, PushBack,
\* EmplaceBack, Insert, Emplace) fails because copying an element throws, the
\* exception leaves the call and the vector has the size, the capacity and the
\* element values it had before the call.
StrongGuaranteeOnGrowth ==
    \A v \in Subjects : \A c \in GrowthCalls(v) :
        LET r == Run(c)
        IN (Valid(c, r) /\ T.copyable /\ r.fault \in {"copy", "ctor"})
               => /\ r.thrown # ""
                  /\ Untouched(r, v)
                  /\ Elements(r.vec, r.heap, v) = Elements(vec, heap, v)

\* An insertion in the middle of a full vector of two or more elements fails
\* on the copy of the second element.
StrongGuaranteeOnGrowthWitness ==
    /\ T.copyable /\ ~T.nothrow_move
    /\ \E c \in GrowthCalls("a") :
           LET r == Run(c)
           IN /\ c.op = "Emplace" /\ c.count = 1 /\ vec["a"].size_ >= 2
              /\ Valid(c, r) /\ r.fault = "copy" /\ r.thrown = "copy"
              /\ Untouched(r, "a")
    /\ \E c \in GrowthCalls("a") :
           c.op = "Reserve" /\ Run(c).thrown = "copy"

\* C3: whenever no call is running, the number of element constructor calls
\* minus the number of element destructor calls equals the sum of Size()
\* over the vectors that exist.
LiveEqualsSize ==
    LET sum[S \in SUBSET Vecs] ==
            IF S = {} THEN 0
            ELSE LET v == CHOOSE w \in S : TRUE
                 IN vec[v].size_ + sum[S \ {v}]
    IN live = sum[Alive]

\* C4: every slot in [0, Size()) holds a constructed element and every slot
\* in [Size(), Capacity()) is raw storage.
SlotsConstructedBelowSize ==
    \A v \in Alive :
        /\ \A i \in 1..vec[v].size_ : Elements(vec, heap, v)[i] # <<>>
        /\ Spare(vec, heap, v) \subseteq {<<>>}

\* C5: an allocation failure or an exception of an element operation inside
\* a call always leaves the call as an exception: no call catches it and
\* returns.
FailuresPropagate ==
    \A v \in Subjects : \A c \in MemberCalls(v) \cup PairCalls(v) :
        LET r == Run(c)
        IN (Valid(c, r) /\ r.fault # "") => r.thrown # ""

\* C6: after b = std::move(a) with a and b distinct, b holds the elements a
\* had and a is empty.
MoveAssignmentEmptiesSource ==
    \A v \in Vecs : \A c \in MoveAssignmentCalls(v) :
        LET r == Run(c)
        IN (Valid(c, r) /\ c.o # c.v)
               => /\ Elements(r.vec, r.heap, c.v) = Elements(vec, heap, c.o)
                  /\ r.vec[c.o].size_ = 0

\* C7: the element destructor runs only on constructed slots and once per
\* element, and a buffer is released only after every element constructed in
\* it was destroyed.
DestroyOnlyConstructed ==
    errs \cap {"destroy_raw", "out_of_bounds", "double_free", "leak"} = {}

\* The buffer of v is its own: v has none, or o has another one.
OwnStorage(r, v, o) ==
    r.vec[v].buffer_ = Null \/ r.vec[v].buffer_ # r.vec[o].buffer_

\* C8: after b = a, b has the size and the element values of a, in order, and
\* a is what it was, whichever way the assignment went (a larger than the
\* capacity of b; a within it and b shorter; b longer).  The two vectors
\* have separate storage: a later call on one leaves the other untouched.
CopyAssignmentCopies ==
    /\ \A v \in Vecs : \A c \in CopyAssignmentCalls(v) :
           LET r == Run(c)
           IN (Valid(c, r) /\ r.fault = "")
                  => /\ r.thrown = "" /\ r.errs = {}
                     /\ r.vec[c.v].size_ = vec[c.o].size_
                     /\ Elements(r.vec, r.heap, c.v) = Elements(vec, heap, c.o)
                     /\ Untouched(r, c.o)
                     /\ c.o # c.v => OwnStorage(r, c.v, c.o)
    /\ \A v \in Subjects : \A c \in MemberCalls(v) :
           \A w \in Alive \ {v} : Untouched(Run(c), w)

\* a = b has to take a copy of b (b is larger than the capacity of a), and
\* b = a has to destroy the tail of b (b is longer, a fits).
CopyAssignmentCopiesWitness ==
    /\ vec["a"].alive /\ vec["b"].alive
    /\ vec["b"].size_ > vec["a"].capacity_ /\ vec["a"].size_ >= 1
    /\ \E c \in CopyAssignmentCalls("a") :
           LET r == Run(c)
           IN /\ c.o = "b" /\ Valid(c, r) /\ r.fault = ""
              /\ Elements(r.vec, r.heap, "a") = Elements(vec, heap, "b")
              /\ Elements(vec, heap, "a") # SubSeq(Elements(vec, heap, "b"), 1,
                                                   vec["a"].size_)
    /\ \E c \in CopyAssignmentCalls("b") :
           LET r == Run(c)
           IN /\ c.o = "a" /\ Valid(c, r) /\ r.fault = ""
              /\ Elements(r.vec, r.heap, "b") = Elements(vec, heap, "a")

\* C9: Insert(begin() + i, x) with 0 <= i <= Size() gives the elements
\* before i, then x, then the elements from i on; Erase(begin() + i) right
\* after it gives back the elements the vector had, whether or not the
\* insertion reallocated.
InsertEraseRoundTrip ==
    \A v \in Subjects : \A c \in EmplaceCalls(v) :
        LET r == Run(c)
            back == Erase(r, v, c.count)
        IN (Valid(c, r) /\ r.fault = "")
               => /\ r.thrown = "" /\ r.errs = {}
                  /\ Elements(r.vec, r.heap, v)
                         = InsertAt(Elements(vec, heap, v), c.count, <<c.x>>)
                  /\ back.thrown = "" /\ back.errs = {}
                  /\ back.vec[v].size_ = vec[v].size_
                  /\ Elements(back.vec, back.heap, v) = Elements(vec, heap, v)

\* An insertion in front of the second of three different-looking elements
\* of a full vector (it reallocates), of a value the neighbours do not have.
InsertEraseRoundTripWitness ==
    /\ vec["a"].size_ = vec["a"].capacity_ /\ vec["a"].size_ = 2
    /\ Elements(vec, heap, "a")[1] # Elements(vec, heap, "a")[2]
    /\ \E c \in EmplaceCalls("a") :
           LET r == Run(c)
               back == Erase(r, "a", c.count)
           IN /\ c.count = 1 /\ Valid(c, r) /\ r.fault = ""
              /\ r.vec["a"].buffer_ # vec["a"].buffer_
              /\ Elements(r.vec, r.heap, "a")[2] = <<c.x>>
              /\ Elements(back.vec, back.heap, "a") = Elements(vec, heap, "a")

\* C10: a PushBack, EmplaceBack, Insert or Emplace that returns leaves a
\* vector that had Size() = Capacity() = c with capacity max(1, 2c), and a
\* vector that had Size() < Capacity() with the capacity it had.
GrowthPolicy ==
    \A v \in Subjects : \A c \in AddCalls(v) :
        LET r == Run(c)
            cap == vec[v].capacity_
        IN (Valid(c, r) /\ r.thrown = "")
               => r.vec[v].capacity_ =
                      IF vec[v].size_ = cap
                      THEN (IF 2 * cap > 1 THEN 2 * cap ELSE 1)
                      ELSE cap

\* A full vector of two elements takes a third one, at the back and in the
\* middle, and ends with capacity four.
GrowthPolicyWitness ==
    /\ vec["a"].size_ = 2 /\ vec["a"].capacity_ = 2
    /\ \E c \in EmplaceBackCalls("a") :
           LET r == Run(c)
           IN Valid(c, r) /\ r.thrown = "" /\ r.vec["a"].capacity_ = 4
    /\ \E c \in EmplaceCalls("a") :
           LET r == Run(c)
           IN /\ c.count = 1 /\ Valid(c, r) /\ r.thrown = ""
              /\ r.vec["a"].capacity_ = 4

\* C11: in the transfer to the new buffer of a growing Reserve, PushBack,
\* EmplaceBack, Insert or Emplace, the elements the vector holds are all
\* copy-constructed, none moved, when T's move constructor may throw and T is
\* copyable, and all move-constructed, none copied, when the move constructor
\* is noexcept or T has no copy constructor.
MoveIfNoexcept ==
    \A v \in Subjects : \A c \in GrowthCalls(v) :
        LET r == Run(c)
        IN (Valid(c, r) /\ r.fault = "")
               => /\ (~T.nothrow_move /\ T.copyable)
                         => r.copies = vec[v].size_ /\ r.moves = 0
                  /\ (T.nothrow_move \/ ~T.copyable)
                         => r.moves = vec[v].size_ /\ r.copies = 0

\* A full vector of two elements of a type without a copy constructor and
\* with a throwing move constructor is grown by Reserve, at the back and in
\* the middle.
MoveIfNoexceptWitness ==
    /\ ~T.copyable /\ ~T.nothrow_move
    /\ vec["a"].size_ = 2 /\ vec["a"].capacity_ = 2
    /\ \A op \in {"Reserve", "EmplaceBack", "Emplace"} :
           \E c \in GrowthCalls("a") :
               LET r == Run(c)
               IN /\ c.op = op /\ Valid(c, r) /\ r.fault = ""
                  /\ r.moves = 2 /\ r.copies = 0

\* C12: a Resize(n) that returns leaves Size() = n; for n above the length L
\* the elements [0, L) are what they were and n - L value-initialized
\* elements follow them; for n below L the elements [0, n) are what they
\* were and exactly the L - n trailing elements were destroyed.
ResizeContents ==
    \A v \in Subjects : \A c \in ResizeCalls(v) :
        LET r == Run(c)
            n == c.count
            L == vec[v].size_
            before == Elements(vec, heap, v)
        IN (Valid(c, r) /\ r.fault = "")
               => /\ r.thrown = "" /\ r.errs = {}
                  /\ r.vec[v].size_ = n
                  /\ r.live = live + n - L
                  /\ Elements(r.vec, r.heap, v) =
                         [i \in 1..n |->
                             IF i <= L THEN before[i] ELSE <<DefaultValue>>]
                  /\ n < L => /\ r.vec[v].buffer_ = vec[v].buffer_
                              /\ r.vec[v].capacity_ = vec[v].capacity_
                              /\ Spare(r.vec, r.heap, v) \subseteq {<<>>}

\* A vector of two elements, one of them not the default value, can be
\* resized to four (past its capacity), to three and to one.
ResizeContentsWitness ==
    /\ vec["a"].size_ = 2 /\ vec["a"].capacity_ = 3
    /\ \E i \in 1..2 : Elements(vec, heap, "a")[i] # <<DefaultValue>>
    /\ \A n \in {1, 3, 4} :
           \E c \in ResizeCalls("a") :
               LET r == Run(c)
               IN /\ c.count = n /\ Valid(c, r) /\ r.fault = ""
                  /\ r.vec["a"].size_ = n

\* C13: Reserve(n) with n <= Capacity() changes nothing: same buffer, size,
\* capacity and elements.  A Reserve(n) with n > Capacity() that returns
\* makes Capacity() exactly n and leaves Size() and the element values, in
\* their order, what they were.
ReserveFrame ==
    \A v \in Subjects : \A c \in ReserveCalls(v) :
        LET r == Run(c)
            n == c.count
        IN Valid(c, r)
               => /\ n <= vec[v].capacity_
                         => /\ r.thrown = "" /\ r.errs = {} /\ r.allocs = 0
                            /\ Untouched(r, v)
                  /\ (n > vec[v].capacity_ /\ r.fault = "")
                         => /\ r.thrown = "" /\ r.errs = {} /\ r.live = live
                            /\ r.vec[v].capacity_ = n
                            /\ Len(r.heap[r.vec[v].buffer_]) = n
                            /\ r.vec[v].size_ = vec[v].size_
                            /\ Elements(r.vec, r.heap, v) = Elements(vec, heap, v)
                            /\ Spare(r.vec, r.heap, v) \subseteq {<<>>}

\* A vector of two elements and capacity three is asked for capacity two
\* (nothing happens) and for capacity four (it moves to a new buffer).
ReserveFrameWitness ==
    /\ vec["a"].size_ = 2 /\ vec["a"].capacity_ = 3
    /\ Elements(vec, heap, "a")[1] # Elements(vec, heap, "a")[2]
    /\ \E c \in ReserveCalls("a") :
           c.count = 2 /\ Valid(c, Run(c)) /\ Untouched(Run(c), "a")
    /\ \E c \in ReserveCalls("a") :
           LET r == Run(c)
           IN /\ c.count = 4 /\ Valid(c, r) /\ r.fault = ""
              /\ r.vec["a"].capacity_ = 4
              /\ r.vec["a"].buffer_ # vec["a"].buffer_

\* The calls on v that have to allocate a larger buffer.
AllocatingCalls(v) ==
    GrowthCalls(v) \cup {c \in ResizeCalls(v) : c.count > vec[v].capacity_}

\* C14: when operator new fails in Reserve, in a PushBack, EmplaceBack,
\* Insert or Emplace that has to grow, or in a growing Resize, the failure
\* leaves the call as an exception and the vector is what it was: same
\* Size(), Capacity(), buffer and elements; nothing was constructed, moved
\* or destroyed before the allocation.
AllocationFailureIntact ==
    \A v \in Subjects : \A c \in AllocatingCalls(v) :
        LET r == Run(c)
        IN (Valid(c, r) /\ r.fault = "alloc")
               => /\ r.thrown = "alloc" /\ r.errs = {}
                  /\ Untouched(r, v)
                  /\ r.heap = heap /\ r.live = live
                  /\ r.copies = 0 /\ r.moves = 0 /\ r.allocs = 0

\* Each of the four functions can fail to allocate on a full vector of two
\* elements.
AllocationFailureIntactWitness ==
    /\ vec["a"].size_ = 2 /\ vec["a"].capacity_ = 2
    /\ \A op \in {"Reserve", "EmplaceBack", "Emplace", "Resize"} :
           \E c \in AllocatingCalls("a") :
               LET r == Run(c)
               IN /\ c.op = op /\ Valid(c, r) /\ r.fault = "alloc"
                  /\ r.thrown = "alloc" /\ Untouched(r, "a")

\* v.PushBack(x) n times in a row, on execution record e; the counters of
\* the record run over the n calls.
RECURSIVE PushBacks(_, _, _, _)
PushBacks(e, v, x, n) ==
    IF n = 0 THEN e ELSE PushBacks(EmplaceBack(e, v, x), v, x, n - 1)

\* ceil(log2(n)) for n >= 1.
RECURSIVE Log2Ceil(_)
Log2Ceil(n) == IF n <= 1 THEN 0 ELSE 1 + Log2Ceil((n + 1) \div 2)

\* C15: N PushBack calls on an empty vector allocate a buffer at most
\* ceil(log2(N)) + 1 times and transfer fewer than 2N elements between
\* buffers in all, for every N from 1 to MaxAppend.
AmortizedGrowth ==
    \A v \in Subjects :
        (Ready(v) /\ vec[v].size_ = 0)
            => \A N \in 1..MaxAppend : \A x \in Values :
                   LET r == PushBacks(Start(0), v, x, N)
                   IN /\ r.thrown = "" /\ r.errs = {}
                      /\ r.vec[v].size_ = N
                      /\ r.allocs <= Log2Ceil(N) + 1
                      /\ r.copies + r.moves < 2 * N

\* A default-constructed vector, next to a vector that holds a buffer, takes
\* MaxAppend elements, with as many allocations as the bound allows and more
\* than MaxAppend / 2 elements transferred.
AmortizedGrowthWitness ==
    /\ Ready("a") /\ vec["a"] = EmptyVector
    /\ vec["b"].alive /\ vec["b"].buffer_ # Null
    /\ \E N \in 5..MaxAppend :
           LET r == PushBacks(Start(0), "a", 1, N)
           IN /\ r.thrown = "" /\ r.vec["a"].size_ = N
              /\ r.allocs = Log2Ceil(N) + 1
              /\ 2 * (r.copies + r.moves) > N

\* The addresses of the buffers that are allocated in heap hp.
Allocated(hp) == {p \in Addrs : hp[p] # <<>>}

\* C16: whenever no call is running, every allocated buffer is held by
\* exactly one Vector (no two objects hold the same non-null address, and no
\* buffer is left without an owner), no Vector holds a buffer that was
\* deallocated, and no buffer was deallocated twice.
ExclusiveOwnership ==
    /\ \A v \in Alive : \A w \in Alive \ {v} :
           vec[v].buffer_ = Null \/ vec[v].buffer_ # vec[w].buffer_
    /\ \A v \in Alive :
           IF vec[v].buffer_ = Null THEN vec[v].capacity_ = 0
           ELSE /\ vec[v].buffer_ \in Allocated(heap)
                /\ Len(heap[vec[v].buffer_]) = vec[v].capacity_
    /\ \A p \in Allocated(heap) : \E v \in Alive : vec[v].buffer_ = p
    /\ "double_free" \notin errs

\* Two vectors hold a buffer each; a can fail to grow, which releases the
\* new buffer alone, can grow, which releases its old buffer alone, and can
\* be destroyed, which releases its buffer alone.
ExclusiveOwnershipWitness ==
    /\ vec["a"].alive /\ vec["b"].alive
    /\ vec["a"].buffer_ # Null /\ vec["b"].buffer_ # Null
    /\ vec["a"].size_ = vec["a"].capacity_
    /\ \E c \in EmplaceBackCalls("a") :
           LET r == Run(c)
           IN /\ r.allocs = 1 /\ r.thrown # ""
              /\ Allocated(r.heap) = Allocated(heap)
    /\ \E c \in EmplaceBackCalls("a") :
           LET r == Run(c)
           IN /\ Valid(c, r) /\ r.allocs = 1 /\ r.thrown = ""
              /\ Allocated(r.heap) = {r.vec["a"].buffer_, vec["b"].buffer_}
              /\ r.vec["a"].buffer_ # vec["a"].buffer_
    /\ \E c \in DestroyCalls("a") :
           Allocated(Run(c).heap) = {vec["b"].buffer_}

\* C17: when the constructor of the new element throws in PushBack or
\* EmplaceBack, with spare capacity or on the reallocating path, the
\* exception leaves the call and the vector keeps its Size(), Capacity(),
\* buffer and elements; the buffer allocated on the reallocating path is
\* released and no element was transferred, constructed or destroyed.
NewElementFailureIntact ==
    \A v \in Subjects : \A c \in EmplaceBackCalls(v) :
        LET r == Run(c)
        IN (Valid(c, r) /\ r.fault = "ctor")
               => /\ r.thrown = "ctor" /\ r.errs = {}
                  /\ Untouched(r, v)
                  /\ r.heap = heap /\ r.live = live
                  /\ r.copies = 0 /\ r.moves = 0
                  /\ r.allocs = IF vec[v].size_ = vec[v].capacity_ THEN 1 ELSE 0

\* The constructor of the new element throws in a full vector of two
\* elements, after the allocation of the new buffer, and in a vector of one
\* element with spare capacity.
NewElementFailureIntactWitness ==
    /\ vec["a"].size_ = 2 /\ vec["a"].capacity_ = 2
    /\ vec["b"].alive /\ vec["b"].size_ = 1 /\ vec["b"].capacity_ > 1
    /\ \E c \in EmplaceBackCalls("a") :
           LET r == Run(c)
           IN /\ Valid(c, r) /\ r.fault = "ctor" /\ r.thrown = "ctor"
              /\ r.allocs = 1 /\ Untouched(r, "a")
    /\ \E c \in EmplaceBackCalls("b") :
           LET r == Run(c)
           IN /\ Valid(c, r) /\ r.fault = "ctor" /\ r.thrown = "ctor"
              /\ r.allocs = 0 /\ Untouched(r, "b")

\* The throwing-capable steps of an interior Emplace into spare capacity
\* that come before std::move_backward: the constructor of temp, and the
\* move constructor of the new last element unless it is noexcept.
StepsBeforeShift == IF T.nothrow_move THEN 1 ELSE 2

\* The calls of Emplace on v at an interior position, with spare capacity,
\* in which a move assignment of std::move_backward throws.
ShiftFailures(v) ==
    {c \in EmplaceCalls(v) :
        /\ vec[v].size_ < vec[v].capacity_ /\ c.count < vec[v].size_
        /\ c.fuel > StepsBeforeShift
        /\ c.fuel <= StepsBeforeShift + (vec[v].size_ - 1 - c.count)}

\* C18: when a move assignment of the right shift throws in an Emplace or
\* Insert at an interior position of a vector with spare capacity, the
\* exception leaves the call, the element constructed at index old Size()
\* has been destroyed, Size() is what it was, the elements before the
\* position keep their values, every element below Size() is still a
\* constructed object and no destructor ran on raw storage.
ShiftFailureRollsBack ==
    \A v \in Subjects : \A c \in ShiftFailures(v) :
        LET r == Run(c)
        IN Valid(c, r)
               => /\ r.fault = "move_assign" /\ r.thrown = "move_assign"
                  /\ r.errs = {}
                  /\ r.vec[v] = vec[v]
                  /\ r.heap[vec[v].buffer_][vec[v].size_ + 1] = <<>>
                  /\ Spare(r.vec, r.heap, v) \subseteq {<<>>}
                  /\ \A i \in 1..c.count :
                         Elements(r.vec, r.heap, v)[i] = Elements(vec, heap, v)[i]
                  /\ \A i \in 1..vec[v].size_ :
                         Elements(r.vec, r.heap, v)[i] # <<>>
                  /\ r.live = live
                  /\ r.moves = 1

\* In a vector of three elements and capacity four, an Emplace at offset 1
\* fails in the move assignment of the shift: the elements at offsets 0 and
\* 1 are what they were, the last element is moved-from and the slot at
\* offset 3 is raw again.
ShiftFailureRollsBackWitness ==
    /\ vec["a"].size_ = 3 /\ vec["a"].capacity_ = 4
    /\ \E c \in ShiftFailures("a") :
           LET r == Run(c)
           IN /\ c.count = 1 /\ c.fuel = StepsBeforeShift + 1
              /\ Valid(c, r) /\ r.thrown = "move_assign"
              /\ r.vec["a"].size_ = 3
              /\ r.heap[vec["a"].buffer_][4] = <<>>
              /\ r.heap[vec["a"].buffer_][1] = heap[vec["a"].buffer_][1]
              /\ r.heap[vec["a"].buffer_][2] = heap[vec["a"].buffer_][2]
              /\ r.heap[vec["a"].buffer_][3] = <<MovedFrom>>

\* The copy assignments v = o in which o has more elements than v has
\* capacity.
CopyAndSwapCalls(v) ==
    {c \in CopyAssignmentCalls(v) :
        c.o # c.v /\ vec[c.o].size_ > vec[c.v].capacity_}

\* C19: in a copy assignment b = a with a.Size() > b.Capacity(), a failure
\* of the allocation or of an element copy constructor while the temporary
\* copy is built leaves the call as an exception, with b unchanged in
\* Size(), Capacity(), buffer and element values, and with nothing of the
\* temporary left behind; when nothing fails, b has the size and the
\* elements of a.  No other step of such an assignment can fail.
CopyAndSwapAllOrNothing ==
    \A v \in Vecs : \A c \in CopyAndSwapCalls(v) :
        LET r == Run(c)
        IN Valid(c, r)
               => /\ r.errs = {}
                  /\ Untouched(r, c.o)
                  /\ IF r.fault = ""
                     THEN /\ r.thrown = ""
                          /\ r.vec[c.v].size_ = vec[c.o].size_
                          /\ r.vec[c.v].capacity_ = vec[c.o].size_
                          /\ Elements(r.vec, r.heap, c.v)
                                 = Elements(vec, heap, c.o)
                          /\ OwnStorage(r, c.v, c.o)
                     ELSE /\ r.fault \in {"alloc", "copy"}
                          /\ r.thrown = r.fault
                          /\ Untouched(r, c.v)
                          /\ r.heap = heap /\ r.live = live

\* b has an element and a has more elements than b has capacity: b = a can
\* fail in the allocation, can fail in the copy of the second element, after
\* the first was copied, and can succeed.
CopyAndSwapAllOrNothingWitness ==
    /\ vec["a"].alive /\ vec["b"].alive
    /\ vec["b"].size_ >= 1 /\ vec["a"].size_ > vec["b"].capacity_
    /\ Elements(vec, heap, "b")[1] # Elements(vec, heap, "a")[1]
    /\ \E c \in CopyAndSwapCalls("b") :
           LET r == Run(c)
           IN /\ Valid(c, r) /\ r.thrown = "alloc" /\ Untouched(r, "b")
    /\ \E c \in CopyAndSwapCalls("b") :
           LET r == Run(c)
           IN /\ Valid(c, r) /\ c.fuel = 3 /\ r.thrown = "copy"
              /\ r.allocs = 1 /\ Untouched(r, "b") /\ r.heap = heap
    /\ \E c \in CopyAndSwapCalls("b") :
           LET r == Run(c)
           IN /\ Valid(c, r) /\ r.fault = ""
              /\ Elements(r.vec, r.heap, "b") = Elements(vec, heap, "a")
              /\ r.vec["b"].buffer_ # vec["b"].buffer_

\* What EmplaceBack returns, in the record r it ends in: data_[new_size_],
\* with new_size_ the size_ before ++size_.
EmplaceBackResult(r, v) ==
    [buffer_ |-> r.vec[v].buffer_, index |-> r.vec[v].size_ - 1]

\* What Emplace returns, in the record r it ends in: begin() + count.
EmplaceResult(r, v, count) == [buffer_ |-> r.vec[v].buffer_, index |-> count]

\* The pairs of an EmplaceBack(x) and an Emplace(end(), x) on v in which
\* nothing throws.
AppendPairs(v) ==
    {<<b, m>> \in EmplaceBackCalls(v) \X EmplaceCalls(v) :
        b.fuel = 0 /\ m.fuel = 0 /\ m.count = vec[v].size_ /\ m.x = b.x}

\* C20: Emplace(end(), x) and EmplaceBack(x), when neither throws, end in
\* the same state: the elements the vector had followed by x, the same
\* Size() and the same Capacity(), with spare capacity and on the
\* reallocating path alike, and both return the element at index old Size().
EmplaceAtEndIsEmplaceBack ==
    \A v \in Subjects : \A p \in AppendPairs(v) :
        LET rb == Run(p[1])
            rm == Run(p[2])
        IN /\ rb.thrown = "" /\ rm.thrown = ""
           /\ rb.errs = {} /\ rm.errs = {}
           /\ Elements(rm.vec, rm.heap, v) = Elements(rb.vec, rb.heap, v)
           /\ Elements(rm.vec, rm.heap, v)
                  = Append(Elements(vec, heap, v), <<p[1].x>>)
           /\ rm.vec[v].size_ = rb.vec[v].size_
           /\ rm.vec[v].size_ = vec[v].size_ + 1
           /\ rm.vec[v].capacity_ = rb.vec[v].capacity_
           /\ Spare(rm.vec, rm.heap, v) = Spare(rb.vec, rb.heap, v)
           /\ EmplaceResult(rm, v, p[2].count) = EmplaceBackResult(rb, v)
           /\ EmplaceResult(rm, v, p[2].count).index = vec[v].size_
           /\ rm.live = rb.live
           /\ rm.allocs = rb.allocs
           /\ rm.copies = rb.copies /\ rm.moves = rb.moves

\* a is full with two elements, so both calls reallocate; b has an element
\* and spare capacity, so both calls construct in place.
EmplaceAtEndIsEmplaceBackWitness ==
    /\ vec["a"].size_ = 2 /\ vec["a"].capacity_ = 2
    /\ vec["b"].alive /\ vec["b"].size_ = 1 /\ vec["b"].capacity_ > 1
    /\ \E p \in AppendPairs("a") :
           LET rb == Run(p[1])
               rm == Run(p[2])
           IN /\ rb.allocs = 1 /\ rm.allocs = 1
              /\ rm.vec["a"].capacity_ = 4 /\ rm.vec["a"].size_ = 3
              /\ Elements(rm.vec, rm.heap, "a") = Elements(rb.vec, rb.heap, "a")
              /\ Elements(rm.vec, rm.heap, "a")[3] = <<p[1].x>>
    /\ \E p \in AppendPairs("b") :
           LET rb == Run(p[1])
               rm == Run(p[2])
           IN /\ rb.allocs = 0 /\ rm.allocs = 0
              /\ rm.vec["b"].size_ = 2
              /\ Elements(rm.vec, rm.heap, "b") = Elements(rb.vec, rb.heap, "b")
              /\ Elements(rm.vec, rm.heap, "b")[2] = <<p[1].x>>

====
